---- MODULE Spec2Model ----
(***************************************************************************)
(* A model of git-backup: the scope resolution of cmd/root.go, the backup  *)
(* run of cmd/backup.go, the snapshot catalog (list) and the restore of    *)
(* cmd/restore.go, over an abstract PlainID API and an abstract git        *)
(* remote.                                                                 *)
(*                                                                         *)
(* A string of the program is a tuple of characters, so that concatenation,*)
(* substring search, suffix tests and lexicographic order are computed as  *)
(* the Go code computes them. The fixed words of a format string ("env:",  *)
(* "policy_", ".json") are single letters of that alphabet.                *)
(***************************************************************************)
EXTENDS Integers, Sequences, FiniteSets, TLC

VARIABLES
    up,        \* the PlainID tenant: what the API returns
    cfg,       \* the global cfg of the command in flight
    declared,  \* cfg.PlainID.Envs as config.LoadConfig returned it
    cmd,       \* the command in flight: "none", "backup", "list", "restore"
    opts,      \* its flags: --tag, --env-id, --ws-id
    pc,        \* its position
    err,       \* the error it returned, "" while none
    now,       \* the wall clock, in seconds of the day
    remote,    \* the git remote: its branch heads and its tags
    repo,      \* the repository and working tree in the temporary directory
    listed,    \* what the list command printed
    warned,    \* the warnings it logged
    paging,    \* the page loop of an application listing in progress
    dest,      \* the target directory of the restore command
    runs,      \* the backup runs started so far
    pushed     \* those of them whose push returned without error

vars == <<up, cfg, declared, cmd, opts, pc, err, now, remote, repo, listed, warned, paging, dest, runs,
          pushed>>

------------------------------------------------------------------------------
(* Strings *)

Star == <<"*">>
Empty == <<>>

E1 == <<"e", "1">>
E12 == <<"e", "1", "2">>
W1 == <<"w", "1">>
W2 == <<"w", "2">>
EnvIds == {E1, E12}
WsIds == {W1, W2}

------------------------------------------------------------------------------
(* config.Environment, config.PlainIDConfig *)

IsWildcard(e) == e.ID = Star

HasWildcardWorkspace(e) ==
    \E i \in 1..Len(e.Workspaces) : e.Workspaces[i].ID = Star

HasWildcardIdentities(e) ==
    \E i \in 1..Len(e.Identities) : e.Identities[i] = Star

HasWildcardEnvironmentFirstOnly(envs) ==
    Len(envs) > 0 /\ IsWildcard(envs[1])

HasWildcardEnvironment(envs) ==
    \E i \in 1..Len(envs) : IsWildcard(envs[i])

\* The index of the first element of s whose ID is id, 0 when there is none.
FirstIndex(s, id) ==
    IF \E i \in 1..Len(s) : s[i].ID = id
    THEN CHOOSE i \in 1..Len(s) :
            /\ s[i].ID = id
            /\ \A j \in 1..(i - 1) : s[j].ID # id
    ELSE 0

FindEnvironment(envs, envID) ==
    IF FirstIndex(envs, envID) # 0 THEN FirstIndex(envs, envID)
    ELSE FirstIndex(envs, Star)

------------------------------------------------------------------------------
(* rootCmd.PersistentPreRunE: scope resolution *)

RECURSIVE Flatten(_)
Flatten(ss) ==
    IF ss = <<>> THEN <<>> ELSE Head(ss) \o Flatten(Tail(ss))

WildcardEnvs(envs) ==
    [i \in 1..Len(envs) |->
        [ID |-> envs[i].ID, Name |-> envs[i].Name,
         Workspaces |-> <<[ID |-> Star, Name |-> Empty]>>,
         Identities |-> <<Star>>]]

\* Mutant: a declared environment is kept whether inventory knows it or not.
MatchEnvKeepAll(configEnv, envs) ==
    <<configEnv>>

MatchEnv(configEnv, envs) ==
    IF FirstIndex(envs, configEnv.ID) = 0 THEN <<>>
    ELSE <<[configEnv EXCEPT !.Name = envs[FirstIndex(envs, configEnv.ID)].Name]>>

ResolveEnvs(decl, envs) ==
    IF HasWildcardEnvironment(decl)
    THEN WildcardEnvs(envs)
    ELSE Flatten([i \in 1..Len(decl) |-> MatchEnv(decl[i], envs)])

\* A variant of MatchWs: the declared workspace is kept as it was declared.
MatchWsKeepsDeclaredName(configWs, wss) ==
    IF FirstIndex(wss, configWs.ID) = 0 THEN <<>> ELSE <<configWs>>

MatchWs(configWs, wss) ==
    IF FirstIndex(wss, configWs.ID) = 0 THEN <<>>
    ELSE <<[configWs EXCEPT !.Name = wss[FirstIndex(wss, configWs.ID)].Name]>>

ResolveWorkspaces(env, wss) ==
    IF HasWildcardWorkspace(env)
    THEN [i \in 1..Len(wss) |-> [ID |-> wss[i].ID, Name |-> wss[i].Name]]
    ELSE Flatten([i \in 1..Len(env.Workspaces) |-> MatchWs(env.Workspaces[i], wss)])

ResolveIdentities(env, identities) ==
    IF HasWildcardIdentities(env) THEN identities ELSE env.Identities

ResolveScope(decl, u) ==
    LET cfgEnvs == ResolveEnvs(decl, u.envs)
    IN  [i \in 1..Len(cfgEnvs) |->
            [cfgEnvs[i] EXCEPT
                !.Workspaces = ResolveWorkspaces(cfgEnvs[i], u.wss[cfgEnvs[i].ID]),
                !.Identities = ResolveIdentities(cfgEnvs[i], u.idents[cfgEnvs[i].ID])]]

\* The inventory calls PersistentPreRunE makes, in order; any of them may fail.
InventoryCalls(decl, u) ==
    {"Environments"} \cup
    (IF ResolveEnvs(decl, u.envs) # <<>> THEN {"Workspaces", "Identities"} ELSE {})

\* A variant of PersistentPreRunE: a failed inventory call leaves the
\* environments resolved so far in the configuration.
PersistentPreRunEKeepsPartial ==
    /\ pc = "prerun"
    /\ \/ /\ cfg' = [cfg EXCEPT !.Envs = ResolveScope(cfg.Envs, up)]
          /\ pc' = "run"
          /\ err' = err
       \/ /\ \E call \in InventoryCalls(cfg.Envs, up) : err' = call
          /\ pc' = "failed"
          /\ cfg' = [cfg EXCEPT !.Envs = ResolveEnvs(cfg.Envs, up.envs)]
    /\ UNCHANGED <<up, declared, cmd, opts, now, remote, repo, listed, warned, paging, dest, runs, pushed>>

PersistentPreRunE ==
    /\ pc = "prerun"
    /\ \/ /\ cfg' = [cfg EXCEPT !.Envs = ResolveScope(cfg.Envs, up)]
          /\ pc' = "run"
          /\ err' = err
       \/ /\ \E call \in InventoryCalls(cfg.Envs, up) : err' = call
          /\ pc' = "failed"
          /\ cfg' = cfg
    /\ UNCHANGED <<up, declared, cmd, opts, now, remote, repo, listed, warned, paging, dest, runs, pushed>>

------------------------------------------------------------------------------
(* Strings: fmt.Sprintf, strings.Contains / HasSuffix / Split, time.Format *)

\* The characters the model's strings are spelled with, in byte order; a fixed
\* word of a file name stands where its first byte puts it.
Alphabet ==
    <<" ", "*", ",", "-", ".", ".json", ".srego", "/", "0", "1", "2", "3", "4", "5",
      "6", "7", "8", "9", ":", "U", "_", "a", "api-mapper-set.json",
      "application.json", "asset-template_", "b", "e", "g", "identity-template-",
      "k", "p", "paa-group_", "policy_", "q", "t", "w", "x", "y">>

Ord(c) == CHOOSE i \in 1..Len(Alphabet) : Alphabet[i] = c

\* Go's < on strings.
RECURSIVE LexLess(_, _)
LexLess(a, b) ==
    IF b = <<>> THEN FALSE
    ELSE IF a = <<>> THEN TRUE
    ELSE IF a[1] = b[1] THEN LexLess(Tail(a), Tail(b))
    ELSE Ord(a[1]) < Ord(b[1])

Contains(s, sub) ==
    \E i \in 0..(Len(s) - Len(sub)) : SubSeq(s, i + 1, i + Len(sub)) = sub

HasSuffix(s, suffix) ==
    Len(s) >= Len(suffix) /\ SubSeq(s, Len(s) - Len(suffix) + 1, Len(s)) = suffix

HasPrefix(s, prefix) ==
    Len(s) >= Len(prefix) /\ SubSeq(s, 1, Len(prefix)) = prefix

\* strings.Split(s, sep) for a one-character sep.
RECURSIVE Split(_, _)
Split(s, sep) ==
    IF \A i \in 1..Len(s) : s[i] # sep THEN <<s>>
    ELSE LET k == CHOOSE i \in 1..Len(s) :
                    s[i] = sep /\ \A j \in 1..(i - 1) : s[j] # sep
         IN  <<SubSeq(s, 1, k - 1)>> \o Split(SubSeq(s, k + 1, Len(s)), sep)

RECURSIVE Join(_, _)
Join(ss, sep) ==
    IF ss = <<>> THEN <<>>
    ELSE IF Len(ss) = 1 THEN ss[1]
    ELSE ss[1] \o sep \o Join(Tail(ss), sep)

Digits == <<"0", "1", "2", "3", "4", "5", "6", "7", "8", "9">>
Digit(n) == Digits[n + 1]
IsDigit(c) == \E n \in 0..9 : Digits[n + 1] = c
DigitValue(c) == CHOOSE n \in 0..9 : Digits[n + 1] = c

\* %d
RECURSIVE Itoa(_)
Itoa(n) == IF n < 10 THEN <<Digit(n)>> ELSE Itoa(n \div 10) \o <<Digit(n % 10)>>

\* The two-digit fields 01, 02, 15, 04, 05 of a time layout.
Pad2(n) == <<Digit((n \div 10) % 10), Digit(n % 10)>>

\* The day the model's clock runs in; the clock counts its seconds.
Today == <<"2", "0", "2", "5", "0", "1", "0", "1">>

\* time.Time.Format("20060102-150405")
\* A variant of Format: the layout is "20060102150405".
FormatWithoutSeparator(t) ==
    Today \o Pad2(t \div 3600) \o Pad2((t \div 60) % 60) \o Pad2(t % 60)

Format(t) ==
    Today \o <<"-">> \o Pad2(t \div 3600) \o Pad2((t \div 60) % 60) \o Pad2(t % 60)

Num2(s, i) == DigitValue(s[i]) * 10 + DigitValue(s[i + 1])

\* time.Parse("20060102-150405", s): ok, and the time as <<date, second of day>>.
ParseTime(s) ==
    IF /\ Len(s) = 15
       /\ s[9] = "-"
       /\ \A i \in (1..15) \ {9} : IsDigit(s[i])
       /\ Num2(s, 5) \in 1..12
       /\ Num2(s, 7) \in 1..31
       /\ Num2(s, 10) \in 0..23
       /\ Num2(s, 12) \in 0..59
       /\ Num2(s, 14) \in 0..59
    THEN [ok |-> TRUE,
          date |-> SubSeq(s, 1, 8),
          secs |-> Num2(s, 10) * 3600 + Num2(s, 12) * 60 + Num2(s, 14)]
    ELSE [ok |-> FALSE, date |-> <<>>, secs |-> 0]

\* time.Time.After
After(a, b) ==
    \/ LexLess(b.date, a.date)
    \/ a.date = b.date /\ a.secs > b.secs

------------------------------------------------------------------------------
(* The working tree: a set of files [path, data]; a path is a sequence of   *)
(* names below the temporary directory. Directories are the prefixes of the *)
(* paths of files (git records no empty directory).                         *)

IsUnder(dir, path) ==
    Len(path) > Len(dir) /\ SubSeq(path, 1, Len(dir)) = dir

\* os.RemoveAll(dir)
RemoveAll(tree, dir) ==
    {f \in tree : ~IsUnder(dir, f.path) /\ f.path # dir}

\* A variant of removeFilesOnly that does not descend into subdirectories.
removeFilesOnlyAtTop(tree, dir) ==
    {f \in tree : ~(IsUnder(dir, f.path) /\ Len(f.path) = Len(dir) + 1)}

\* A variant of removeFilesOnly that empties the whole working tree.
removeFilesOnlyEverywhere(tree, dir) == {}

\* removeFilesOnly(dir): every file below dir goes, at any depth; the
\* directories stay.
removeFilesOnly(tree, dir) ==
    {f \in tree : ~IsUnder(dir, f.path)}

\* os.WriteFile(path, data)
WriteFile(tree, path, data) ==
    {f \in tree : f.path # path} \cup {[path |-> path, data |-> data]}

RECURSIVE WriteFiles(_, _)
WriteFiles(tree, writes) ==
    IF writes = <<>> THEN tree
    ELSE WriteFiles(WriteFile(tree, Head(writes).path, Head(writes).data), Tail(writes))

------------------------------------------------------------------------------
(* plainid.Service: what the PlainID API returns for the tenant u *)

A1 == <<"a", "1">>
A2 == <<"a", "2">>
A3 == <<"a", "3">>
G1 == <<"g", "1">>

\* Service.Applications(envID, wsID): the applications of the environment
\* whose authWsId is wsID, in the order of the listing.
Applications(u, envID, wsID) ==
    SelectSeq(u.apps[envID], LAMBDA a : a.WSID = wsID)

\* No application listing is in progress.
NoPaging == [pc |-> "idle", envID |-> <<>>, wsID |-> <<>>, offset |-> 0, appInfos |-> <<>>]

\* Application.AsJSON: WSID is left out (json:"-").
AsJSON(app) == <<"app:">> \o app.ID \o <<",">> \o app.Name

\* The policies the tenant holds for an application: its listing entry state
\* and its rego text.
TenantPolicies(appID) ==
    IF appID = A1
    THEN <<[State |-> "Active", Body |-> <<"rego:", "1">>],
           [State |-> "Inactive", Body |-> <<"rego:", "2">>],
           [State |-> "Active", Body |-> <<"rego:", "3">>]>>
    ELSE IF appID = A2
    THEN <<[State |-> "Active", Body |-> <<"rego:", "4">>]>>
    ELSE <<>>

\* Service.AppPolicies: the texts of the policies that are not Inactive.
AppPolicies(envID, wsID, appID) ==
    LET active == SelectSeq(TenantPolicies(appID), LAMBDA pol : pol.State # "Inactive")
    IN  [i \in 1..Len(active) |-> active[i].Body]

AppAPIMapper(envID, appID) == <<"mapper:">> \o envID \o <<"/">> \o appID

AssetTemplateIDs(wsID) ==
    IF wsID = W1 THEN <<<<"k", "1">>, <<"k", "2">>>> ELSE <<>>

AssetTemplate(envID, assetTemplateID) ==
    <<"asset:">> \o envID \o <<"/">> \o assetTemplateID

\* Service.IdentityTemplates answers 200 only for a template the environment has.
IdentityTemplateExists(u, envID, identity) ==
    \E i \in 1..Len(u.idents[envID]) : u.idents[envID][i] = identity

IdentityTemplates(envID, identity) ==
    <<"identity:">> \o envID \o <<"/">> \o identity

PAAGroups(u, envID) == u.paa[envID]

\* Mutant: the export carries the time it was made.
ToJSONStamped(paaGroupID) == <<"paa:">> \o paaGroupID \o <<",">> \o Format(now)

\* PAAGroup.ToJSON
ToJSON(paaGroupID) == <<"paa:">> \o paaGroupID

------------------------------------------------------------------------------
(* backupCmd.RunE: the synchronization of the working tree *)

EnvDirName(env) == env.Name \o <<"_">> \o env.ID

CommitMsgPrefix ==
    <<"Backup", " ", "PlainID", " ", "configuration", " ", "for:">>

\* The files fetchPlainIDEnvStuff writes while every identity template is
\* found: one per identity of the environment as configured, then one per
\* PAA group.
RECURSIVE IdentityWrites(_, _, _, _)
IdentityWrites(u, envDir, envID, identities) ==
    IF identities = <<>> \/ ~IdentityTemplateExists(u, envID, Head(identities)) THEN <<>>
    ELSE <<[path |-> <<envDir, <<"identity-template-">> \o Head(identities) \o <<".json">>>>,
            data |-> IdentityTemplates(envID, Head(identities))]>>
         \o IdentityWrites(u, envDir, envID, Tail(identities))

PAAGroupWrites(u, envDir, envID) ==
    [i \in 1..Len(PAAGroups(u, envID)) |->
        [path |-> <<envDir, <<"paa-group_">> \o PAAGroups(u, envID)[i] \o <<".json">>>>,
         data |-> ToJSON(PAAGroups(u, envID)[i])]]

\* fetchPlainIDEnvStuff(envDir, envID): the tree and the error.
fetchPlainIDEnvStuff(tree, u, cfgEnvs, envDir, envID) ==
    IF FindEnvironment(cfgEnvs, envID) = 0
    THEN [tree |-> tree, err |-> "environment not found in configuration"]
    ELSE LET identities == cfgEnvs[FindEnvironment(cfgEnvs, envID)].Identities
             written == IdentityWrites(u, envDir, envID, identities)
         IN  IF Len(written) < Len(identities)
             THEN [tree |-> WriteFiles(tree, written),
                   err |-> "failed to fetch app identity templates"]
             ELSE [tree |-> WriteFiles(tree, written \o PAAGroupWrites(u, envDir, envID)),
                   err |-> ""]

AssetTemplateWrites(wsDir, envID, wsID) ==
    [i \in 1..Len(AssetTemplateIDs(wsID)) |->
        [path |-> wsDir \o <<<<"asset-template_">> \o Itoa(i - 1) \o <<".json">>>>,
         data |-> AssetTemplate(envID, AssetTemplateIDs(wsID)[i])]]

AppWrites(wsDir, envID, wsID, app) ==
    LET appDir == wsDir \o <<app.Name>>
        policies == AppPolicies(envID, wsID, app.ID)
    IN  <<[path |-> appDir \o <<<<"application.json">>>>, data |-> AsJSON(app)]>>
        \o [i \in 1..Len(policies) |->
              [path |-> appDir \o <<<<"policy_">> \o Itoa(i - 1) \o <<".srego">>>>,
               data |-> policies[i]]]
        \o <<[path |-> appDir \o <<<<"api-mapper-set.json">>>>,
              data |-> AppAPIMapper(envID, app.ID)]>>

\* fetchPlainIDWSStuff(wsDir, envID, wsID)
fetchPlainIDWSStuff(tree, u, cfgEnvs, wsDir, envID, wsID) ==
    LET apps == Applications(u, envID, wsID)
        assets == AssetTemplateWrites(wsDir, envID, wsID)
    IN  IF FindEnvironment(cfgEnvs, envID) = 0
        THEN [tree |-> WriteFiles(tree, assets),
              err |-> "environment not found in configuration"]
        ELSE [tree |-> WriteFiles(tree, assets \o
                        Flatten([i \in 1..Len(apps) |-> AppWrites(wsDir, envID, wsID, apps[i])])),
              err |-> ""]

\* The loop of RunE over cfg.PlainID.Envs and their workspaces as a list of
\* steps: the environment, then each of its workspaces.
WorkList(cfgEnvs) ==
    Flatten([i \in 1..Len(cfgEnvs) |->
        <<[kind |-> "env", env |-> i, ws |-> 0]>>
        \o [j \in 1..Len(cfgEnvs[i].Workspaces) |-> [kind |-> "ws", env |-> i, ws |-> j]]])

\* A variant of SyncEnvironment that writes over what the clone holds
\* without removing anything first.
SyncEnvironmentKeepsFiles(st, u, cfgEnvs, env) ==
    LET envDir == EnvDirName(env)
        got == fetchPlainIDEnvStuff(st.tree, u, cfgEnvs, envDir, env.ID)
    IN  [st EXCEPT !.tree = got.tree, !.err = got.err]

\* One environment: MkdirAll, removeFilesOnly, fetchPlainIDEnvStuff.
SyncEnvironment(st, u, cfgEnvs, env) ==
    LET envDir == EnvDirName(env)
        got == fetchPlainIDEnvStuff(removeFilesOnly(st.tree, <<envDir>>), u, cfgEnvs,
                                    envDir, env.ID)
    IN  [st EXCEPT !.tree = got.tree, !.err = got.err]

\* A variant of SyncWorkspace: the environment is named once, by its first
\* workspace, and the later workspaces of it add their own word only.
SyncWorkspaceNamesEnvOnce(st, u, cfgEnvs, env, ws) ==
    LET wsDir == <<EnvDirName(env), ws.Name>>
        got == fetchPlainIDWSStuff(RemoveAll(st.tree, wsDir), u, cfgEnvs,
                                   wsDir, env.ID, ws.ID)
    IN  [st EXCEPT
            !.tree = got.tree,
            !.err = got.err,
            !.commitMsg = IF ws = env.Workspaces[1]
                          THEN @ \o <<" ", "env:">> \o env.ID \o <<" ", "ws:">> \o ws.ID
                          ELSE @ \o <<" ", "ws:">> \o ws.ID]

\* One workspace: RemoveAll, MkdirAll, fetchPlainIDWSStuff, and its pair is
\* appended to the commit message.
SyncWorkspace(st, u, cfgEnvs, env, ws) ==
    LET wsDir == <<EnvDirName(env), ws.Name>>
        got == fetchPlainIDWSStuff(RemoveAll(st.tree, wsDir), u, cfgEnvs,
                                   wsDir, env.ID, ws.ID)
    IN  [st EXCEPT
            !.tree = got.tree,
            !.err = got.err,
            !.commitMsg = IF got.err = ""
                          THEN @ \o <<" ", "env:">> \o env.ID \o <<" ", "ws:">> \o ws.ID
                          ELSE @]

SyncStep(st, u, cfgEnvs, step) ==
    IF step.kind = "env"
    THEN SyncEnvironment(st, u, cfgEnvs, cfgEnvs[step.env])
    ELSE SyncWorkspace(st, u, cfgEnvs, cfgEnvs[step.env], cfgEnvs[step.env].Workspaces[step.ws])

\* What a step writes, in order, when no call of it fails.
StepWrites(u, cfgEnvs, step) ==
    LET env == cfgEnvs[step.env]
        envDir == EnvDirName(env)
    IN  IF step.kind = "env"
        THEN IdentityWrites(u, envDir, env.ID, env.Identities)
             \o PAAGroupWrites(u, envDir, env.ID)
        ELSE LET ws == env.Workspaces[step.ws]
                 wsDir == <<envDir, ws.Name>>
                 apps == Applications(u, env.ID, ws.ID)
             IN  AssetTemplateWrites(wsDir, env.ID, ws.ID)
                 \o Flatten([i \in 1..Len(apps) |-> AppWrites(wsDir, env.ID, ws.ID, apps[i])])

\* What a step leaves of the tree before it fetches anything.
StepCleared(tree, cfgEnvs, step) ==
    LET env == cfgEnvs[step.env]
    IN  IF step.kind = "env"
        THEN removeFilesOnly(tree, <<EnvDirName(env)>>)
        ELSE RemoveAll(tree, <<EnvDirName(env), env.Workspaces[step.ws].Name>>)

\* The failure points of a step: 0 is its first filesystem call (nothing is
\* changed), k > 0 is the fetch or the write that follows its first k - 1
\* files. The first fetch and the last write stand for the calls between them.
FailPoints(u, cfgEnvs, step) ==
    {0, 1, Len(StepWrites(u, cfgEnvs, step))}

\* A variant of FailedStep: the deferred cleanup of RunE also runs when RunE
\* returns an error.
FailedStepCleansUp(st, u, cfgEnvs, step, failPoint) ==
    [st EXCEPT !.tree = {}, !.err = "failed to fetch or write"]

\* Every error of the loop is returned at once: the step stops where it failed.
FailedStep(st, u, cfgEnvs, step, failPoint) ==
    IF failPoint = 0
    THEN [st EXCEPT !.err = "failed to create or remove directory"]
    ELSE [st EXCEPT
            !.tree = WriteFiles(StepCleared(st.tree, cfgEnvs, step),
                                SubSeq(StepWrites(u, cfgEnvs, step), 1, failPoint - 1)),
            !.err = "failed to fetch or write"]

\* The steps from the i-th on; step failAt fails at failPoint (failAt = 0: no
\* call fails). A step is not begun once one has failed.
RECURSIVE RunSteps(_, _, _, _, _, _)
RunSteps(st, u, cfgEnvs, i, failAt, failPoint) ==
    IF st.err # "" \/ i > Len(WorkList(cfgEnvs)) THEN st
    ELSE IF i = failAt
    THEN FailedStep(st, u, cfgEnvs, WorkList(cfgEnvs)[i], failPoint)
    ELSE RunSteps([SyncStep(st, u, cfgEnvs, WorkList(cfgEnvs)[i]) EXCEPT !.done = i],
                  u, cfgEnvs, i + 1, failAt, failPoint)

Synchronized(tree, u, cfgEnvs, failAt, failPoint) ==
    RunSteps([tree |-> tree, commitMsg |-> CommitMsgPrefix, err |-> "", done |-> 0],
             u, cfgEnvs, 1, failAt, failPoint)

------------------------------------------------------------------------------
(* The git repositories: a commit is its tree and message (id: the run that *)
(* made it; scope, tenant and dry: what that run resolved and read, and its *)
(* --dry-run flag); an annotated tag is its name, commit and message.       *)

Branches == {"main", "alt"}

NoTenant ==
    [envs |-> <<>>, wss |-> [e \in EnvIds |-> <<>>], idents |-> [e \in EnvIds |-> <<>>],
     apps |-> [e \in EnvIds |-> <<>>], paa |-> [e \in EnvIds |-> <<>>]]

NoCommit ==
    [id |-> 0, tree |-> {}, msg |-> <<>>, scope |-> <<>>, tenant |-> NoTenant, dry |-> FALSE]

EmptyRemote == [heads |-> [b \in Branches |-> NoCommit], tags |-> {}]

NoRepo ==
    [head |-> NoCommit, base |-> NoCommit, tags |-> {}, tree |-> {}, timestamp |-> <<>>,
     commitMsg |-> <<>>, isNewRepo |-> FALSE, done |-> 0]

\* initializeRepository: git.PlainInit and CreateRemote
initializeRepository == NoRepo

\* repository.CloneRemote into a fresh temporary directory: a single-branch
\* clone of the branch with every tag of the remote; a remote that is empty or
\* lacks the branch gives a newly initialized repository instead.
CloneRemote(r, branchName) ==
    IF r.heads[branchName].id = 0 THEN initializeRepository
    ELSE [NoRepo EXCEPT
            !.head = r.heads[branchName],
            !.base = r.heads[branchName],
            !.tags = r.tags,
            !.tree = r.heads[branchName].tree]

\* Mutant: files missing from the working tree stay in the index.
StageAllKeepsDeleted(index, worktree) ==
    {f \in index : \A g \in worktree : g.path # f.path} \cup worktree

\* worktree.Add("."): additions, modifications and deletions are staged, so
\* the index is the working tree.
StageAll(index, worktree) == worktree

TagMsgPrefix == <<"Backup", " ", "tag", " ", "for", " ">>

TagExists(tags, name) == \E t \in tags : t.name = name

\* repo.Push sends two updates, refs/heads/<branch> and refs/tags/<timestamp>,
\* in one request that is not atomic (PushOptions.Atomic is not set): the
\* remote decides each on its own. Without Force it refuses a branch that is
\* not a fast-forward of its own and a tag name it already has.
RefUpdates == {"branch", "tag"}

Acceptable(r, rp, branchName, force, ref) ==
    \/ force
    \/ ref = "branch" /\ r.heads[branchName] = rp.base
    \/ ref = "tag" /\ ~TagExists(r.tags, rp.timestamp)

\* The remote once it has applied these of the two updates.
Pushed(r, rp, branchName, applied) ==
    [heads |-> IF "branch" \in applied
               THEN [r.heads EXCEPT ![branchName] = rp.head]
               ELSE r.heads,
     tags |-> IF "tag" \in applied
              THEN {t \in r.tags : t.name # rp.timestamp}
                   \cup {t \in rp.tags : t.name = rp.timestamp}
              ELSE r.tags]

\* if cfg.DryRun { return nil }
SkipsPush(c) == c.DryRun

------------------------------------------------------------------------------
(* backupCmd.RunE *)

runVars == <<up, declared, cmd, opts, now, listed, warned, paging, dest, runs, pushed>>

\* CreateTempDir, CloneRemote, repo.Worktree, time.Now().Format
Clone ==
    /\ cmd = "backup" /\ pc = "run"
    /\ \/ /\ repo' = [CloneRemote(remote, cfg.Branch) EXCEPT
                        !.timestamp = Format(now), !.commitMsg = CommitMsgPrefix]
          /\ pc' = "cloned"
          /\ err' = err
       \/ /\ pc' = "failed"
          /\ err' = "failed to clone repository"
          /\ repo' = repo
    /\ UNCHANGED <<runVars, cfg, remote>>

\* The loop over cfg.PlainID.Envs
Synchronize ==
    /\ cmd = "backup" /\ pc = "cloned"
    /\ \E failAt \in 0..Len(WorkList(cfg.Envs)) :
       \E failPoint \in IF failAt = 0 THEN {0}
                         ELSE FailPoints(up, cfg.Envs, WorkList(cfg.Envs)[failAt]) :
          LET st == Synchronized(repo.tree, up, cfg.Envs, failAt, failPoint)
          IN  /\ repo' = [repo EXCEPT !.tree = st.tree, !.commitMsg = st.commitMsg,
                                      !.done = st.done]
              /\ err' = st.err
              /\ pc' = IF st.err = "" THEN "synced" ELSE "failed"
    /\ UNCHANGED <<runVars, cfg, remote>>

\* repo.Head, worktree.Add("."), worktree.Commit, and the branch reference of
\* a new repository
Commit ==
    /\ cmd = "backup" /\ pc = "synced"
    /\ \/ /\ repo' = [repo EXCEPT
                        !.isNewRepo = (repo.head.id = 0),
                        !.head = [id |-> runs,
                                  tree |-> StageAll(repo.head.tree, repo.tree),
                                  msg |-> repo.commitMsg,
                                  scope |-> cfg.Envs,
                                  tenant |-> up,
                                  dry |-> cfg.DryRun]]
          /\ pc' = "committed"
          /\ err' = err
       \/ /\ pc' = "failed"
          /\ err' = "failed to commit changes"
          /\ repo' = repo
    /\ UNCHANGED <<runVars, cfg, remote>>

\* repo.CreateTag(timestamp, commitHash, ...): ErrTagExists when the
\* repository has a tag of that name.
CreateTag ==
    /\ cmd = "backup" /\ pc = "committed"
    /\ IF TagExists(repo.tags, repo.timestamp)
       THEN /\ pc' = "failed"
            /\ err' = "failed to create tag"
            /\ repo' = repo
       ELSE /\ repo' = [repo EXCEPT !.tags = @ \cup
                          {[name |-> repo.timestamp, commit |-> repo.head,
                            message |-> TagMsgPrefix \o repo.commitMsg]}]
            /\ pc' = "tagged"
            /\ err' = err
    /\ UNCHANGED <<runVars, cfg, remote>>

\* The dry-run return, or repo.Push: it returns an error unless the remote
\* applied both updates.
\* A variant of PushOrStop: the push does not wait for CreateTag.
PushOrStopBeforeTag ==
    /\ cmd = "backup" /\ pc \in {"committed", "tagged"}
    /\ IF SkipsPush(cfg)
       THEN /\ pc' = "done"
            /\ UNCHANGED <<remote, err, pushed>>
       ELSE \E applied \in SUBSET RefUpdates :
               /\ \A ref \in applied :
                     Acceptable(remote, repo, cfg.Branch, repo.isNewRepo, ref)
               /\ remote' = Pushed(remote, repo, cfg.Branch, applied)
               /\ IF applied = RefUpdates
                  THEN /\ pc' = "done"
                       /\ err' = err
                       /\ pushed' = pushed \cup {runs}
                  ELSE /\ pc' = "failed"
                       /\ err' = "failed to push changes"
                       /\ pushed' = pushed
    /\ UNCHANGED <<up, declared, cmd, opts, now, listed, warned, paging, dest, runs, cfg, repo>>

PushOrStop ==
    /\ cmd = "backup" /\ pc = "tagged"
    /\ IF SkipsPush(cfg)
       THEN /\ pc' = "done"
            /\ UNCHANGED <<remote, err, pushed>>
       ELSE \E applied \in SUBSET RefUpdates :
               /\ \A ref \in applied :
                     Acceptable(remote, repo, cfg.Branch, repo.isNewRepo, ref)
               /\ remote' = Pushed(remote, repo, cfg.Branch, applied)
               /\ IF applied = RefUpdates
                  THEN /\ pc' = "done"
                       /\ err' = err
                       /\ pushed' = pushed \cup {runs}
                  ELSE /\ pc' = "failed"
                       /\ err' = "failed to push changes"
                       /\ pushed' = pushed
    /\ UNCHANGED <<up, declared, cmd, opts, now, listed, warned, paging, dest, runs, cfg, repo>>

------------------------------------------------------------------------------
(* listCmd.RunE *)

ListLimit == 10

TrimPrefix(part) == Tail(part)

\* The tagInfo of a tag (run: the run that made the tagged commit).
TagInfoOf(t) ==
    LET msgParts == Split(t.message, " ")
        envIDs == SelectSeq(msgParts, LAMBDA part : HasPrefix(part, <<"env:">>))
        wsIDs == SelectSeq(msgParts, LAMBDA part : HasPrefix(part, <<"ws:">>))
    IN  [Name |-> t.name,
         Timestamp |-> t.name,
         Time |-> ParseTime(t.name),
         Message |-> t.message,
         EnvID |-> Join([i \in 1..Len(envIDs) |-> TrimPrefix(envIDs[i])], <<",">>),
         WsID |-> Join([i \in 1..Len(wsIDs) |-> TrimPrefix(wsIDs[i])], <<",">>),
         run |-> t.commit.id]

\* The env/ws filter of the tag loop.
PassesFilter(message, o) ==
    (o.envID # <<>> /\ o.wsID # <<>>) =>
        /\ Contains(message, <<"env:">> \o o.envID)
        /\ Contains(message, <<"ws:">> \o o.wsID)

\* A variant of SortNewestFirst: the comparison of sort.Slice is Time.Before.
RECURSIVE SortOldestFirst(_)
SortOldestFirst(infos) ==
    IF infos = {} THEN <<>>
    ELSE LET oldest == CHOOSE x \in infos :
                          \A y \in infos \ {x} : ~After(x.Time, y.Time)
         IN  <<oldest>> \o SortOldestFirst(infos \ {oldest})

\* sort.Slice by Time.After: newest first.
RECURSIVE SortNewestFirst(_)
SortNewestFirst(infos) ==
    IF infos = {} THEN <<>>
    ELSE LET newest == CHOOSE x \in infos :
                          \A y \in infos \ {x} : ~After(y.Time, x.Time)
         IN  <<newest>> \o SortNewestFirst(infos \ {newest})

Min(a, b) == IF a < b THEN a ELSE b

\* What RunE prints for the tags of the repository.
Listing(tags, o) ==
    LET filteredTags ==
            {TagInfoOf(t) : t \in {t \in tags : /\ ParseTime(t.name).ok
                                                /\ PassesFilter(t.message, o)}}
        sorted == SortNewestFirst(filteredTags)
    IN  SubSeq(sorted, 1, Min(ListLimit, Len(sorted)))

\* CreateTempDir, CloneRemote, repo.Fetch (a failure is a warning), the tag
\* loop, the sort and the output. A repository that CloneRemote initialized
\* has the tags the fetch brings.
ListRunE ==
    /\ cmd = "list" /\ pc = "run"
    /\ \/ /\ \E fetchOk \in BOOLEAN :
                LET cloned == CloneRemote(remote, cfg.Branch)
                    tags == IF fetchOk THEN remote.tags ELSE cloned.tags
                IN  /\ listed' = Listing(tags, opts)
                    /\ warned' = IF fetchOk THEN {} ELSE {"Fetch warning"}
                    /\ paging' = paging
          /\ pc' = "done"
          /\ err' = err
       \/ /\ pc' = "failed"
          /\ err' = "failed to access repository"
          /\ listed' = listed
          /\ warned' = warned
          /\ paging' = paging
    /\ UNCHANGED <<up, cfg, declared, cmd, opts, now, remote, repo, dest, runs, pushed>>

------------------------------------------------------------------------------
(* restoreCmd.PreRunE and RunE *)

\* os.ReadDir(dir): the names below dir, sorted by name.
EntryNames(tree, dir) == {f.path[Len(dir) + 1] : f \in {g \in tree : IsUnder(dir, g.path)}}

IsDir(tree, path) == \E f \in tree : IsUnder(path, f.path)

RECURSIVE SortNames(_)
SortNames(names) ==
    IF names = {} THEN <<>>
    ELSE LET first == CHOOSE n \in names : \A m \in names \ {n} : LexLess(n, m)
         IN  <<first>> \o SortNames(names \ {first})

ReadDir(tree, dir) == SortNames(EntryNames(tree, dir))

\* copyDir(src, dst): every file below src, at the same place below dst.
copyDir(tree, src, target, dst) ==
    {f \in target : \A g \in tree : IsUnder(src, g.path) =>
                        f.path # dst \o SubSeq(g.path, Len(src) + 1, Len(g.path))}
    \cup {[path |-> dst \o SubSeq(g.path, Len(src) + 1, Len(g.path)), data |-> g.data] :
            g \in {h \in tree : IsUnder(src, h.path)}}

\* findWorkspaceByNameOrID(envID, wsID, wsName) # nil
findWorkspaceByNameOrID(cfgEnvs, envID, wsID, wsName) ==
    /\ FindEnvironment(cfgEnvs, envID) # 0
    /\ LET env == cfgEnvs[FindEnvironment(cfgEnvs, envID)]
       IN  \/ \E i \in 1..Len(env.Workspaces) :
                 LET ws == env.Workspaces[i]
                 IN  \/ ws.ID = wsID
                     \/ ws.ID = Star
                     \/ ws.Name = wsName /\ (wsID = <<>> \/ ws.ID = wsID)
           \/ HasWildcardWorkspace(env)

\* A variant of RestoreFiltered: when no directory matches, the command
\* reports success.
RestoreFilteredReportsSuccess(tree, cfgEnvs, o, target) ==
    [found |-> TRUE, dest |-> target]

\* The filtered copy out of tempDir: the first environment directory named
\* *_<env-id> that has a workspace directory findWorkspaceByNameOrID accepts;
\* that directory's content and the environment's files go to the target.
RestoreFiltered(tree, cfgEnvs, o, target) ==
    LET envDirs == SelectSeq(ReadDir(tree, <<>>), LAMBDA n :
                      /\ IsDir(tree, <<n>>)
                      /\ HasSuffix(n, <<"_">> \o o.envID)
                      /\ \E w \in EntryNames(tree, <<n>>) :
                            /\ IsDir(tree, <<n, w>>)
                            /\ findWorkspaceByNameOrID(cfgEnvs, o.envID, o.wsID, w))
    IN  IF envDirs = <<>>
        THEN [found |-> FALSE, dest |-> target]
        ELSE LET envDir == envDirs[1]
                 wsDirs == SelectSeq(ReadDir(tree, <<envDir>>), LAMBDA w :
                              /\ IsDir(tree, <<envDir, w>>)
                              /\ findWorkspaceByNameOrID(cfgEnvs, o.envID, o.wsID, w))
                 copied == copyDir(tree, <<envDir, wsDirs[1]>>, target, <<>>)
                 envFiles == {f \in tree : Len(f.path) = 2 /\ f.path[1] = envDir}
             IN  [found |-> TRUE,
                  dest |-> {f \in copied : \A g \in envFiles : f.path # <<g.path[2]>>}
                           \cup {[path |-> <<g.path[2]>>, data |-> g.data] : g \in envFiles}]

\* The error of PreRunE ("" when it passes); --target-dir is always given.
PreRunE(c, o) ==
    IF c.DryRun /\ o.tag = <<>>
    THEN "both tag and target-dir parameters are required when using dry-run with restore"
    ELSE IF (o.envID # <<>> /\ o.wsID = <<>>) \/ (o.envID = <<>> /\ o.wsID # <<>>)
    THEN "both env-id and ws-id must be provided together if one is specified"
    ELSE ""

\* CreateTempDir gives an empty directory, and nothing is cloned or checked
\* out into it before it is read.
TempDirOfRestore == {}

RestoreRunE ==
    /\ cmd = "restore" /\ pc = "run"
    /\ IF PreRunE(cfg, opts) # ""
       THEN /\ err' = PreRunE(cfg, opts)
            /\ pc' = "failed"
            /\ dest' = dest
       ELSE IF opts.tag = <<>>
       THEN /\ err' = "interactive mode is not yet implemented"
            /\ pc' = "failed"
            /\ dest' = dest
       ELSE IF opts.envID # <<>> /\ opts.wsID # <<>>
       THEN LET got == RestoreFiltered(TempDirOfRestore, cfg.Envs, opts, dest)
            IN  /\ dest' = got.dest
                /\ err' = IF got.found THEN err ELSE "could not find configuration"
                /\ pc' = IF got.found THEN "done" ELSE "failed"
       ELSE /\ dest' = copyDir(TempDirOfRestore, <<>>, dest, <<>>)
            /\ pc' = "done"
            /\ err' = err
    /\ UNCHANGED <<up, cfg, declared, cmd, opts, now, remote, repo, listed, warned, paging, runs, pushed>>

------------------------------------------------------------------------------
(* The commands as the operator starts them, the clock and the tenant *)

MaxRuns == 2
MaxTicks == 2

\* 00:00:58: the clock crosses a minute within MaxTicks.
ClockStart == 58

T1 == <<"t", "1">>
T2 == <<"t", "2">>

NoOpts == [tag |-> <<>>, envID |-> <<>>, wsID |-> <<>>]

App(id, name, wsID) == [ID |-> id, Name |-> name, WSID |-> wsID]

\* The tenant: environments q (e12) and p (e1); p has the workspaces x (w1)
\* and y (w2), the identity template t1, a PAA group and the applications a
\* (in x) and b (in y); q has the workspace x with the application a.
Tenant0 ==
    [envs |-> <<[ID |-> E12, Name |-> <<"q">>], [ID |-> E1, Name |-> <<"p">>]>>,
     wss |-> [e \in EnvIds |->
                IF e = E1
                THEN <<[ID |-> W1, Name |-> <<"x">>], [ID |-> W2, Name |-> <<"y">>]>>
                ELSE <<[ID |-> W1, Name |-> <<"x">>]>>],
     idents |-> [e \in EnvIds |-> IF e = E1 THEN <<T1>> ELSE <<>>],
     apps |-> [e \in EnvIds |->
                IF e = E1
                THEN <<App(A1, <<"a">>, W1), App(A2, <<"b">>, W2)>>
                ELSE <<App(A3, <<"a">>, W1)>>],
     paa |-> [e \in EnvIds |-> IF e = E1 THEN <<G1>> ELSE <<>>]]

\* The same tenant after application a of p was deleted upstream.
Tenant1 ==
    [Tenant0 EXCEPT !.apps[E1] = <<App(A2, <<"b">>, W2)>>]

Tenants == {Tenant0, Tenant1}

Selector(envID, wsID, identity) ==
    [ID |-> envID, Name |-> Empty,
     Workspaces |-> <<[ID |-> wsID, Name |-> Empty]>>,
     Identities |-> <<identity>>]

\* The plainid.envs of the configuration file: p with its workspace x, or
\* the wildcard.
Scopes ==
    {<<Selector(E1, W1, T1)>>,
     <<[ID |-> Star, Name |-> Empty, Workspaces |-> <<>>, Identities |-> <<>>]>>}

\* backup [--dry-run], with a configuration file of these scopes and branches
StartBackup(scopes, branches) ==
    /\ cmd = "none"
    /\ runs < MaxRuns
    /\ \E decl \in scopes, dry \in BOOLEAN, branchName \in branches :
          /\ declared' = decl
          /\ cfg' = [Envs |-> decl, DryRun |-> dry, Branch |-> branchName]
    /\ cmd' = "backup"
    /\ pc' = "prerun"
    /\ runs' = runs + 1
    /\ UNCHANGED <<up, opts, err, now, remote, repo, listed, warned, paging, dest, pushed>>

\* The configuration file of the list and restore commands: p with x.
CatalogScope == <<Selector(E1, W1, T1)>>

ListFilters == {NoOpts, [tag |-> <<>>, envID |-> E1, wsID |-> W1]}

\* list, with or without --env-id e1 --ws-id w1
StartList ==
    /\ cmd = "none"
    /\ \E o \in ListFilters : opts' = o
    /\ declared' = CatalogScope
    /\ cfg' = [Envs |-> CatalogScope, DryRun |-> FALSE, Branch |-> "main"]
    /\ cmd' = "list"
    /\ pc' = "prerun"
    /\ UNCHANGED <<up, err, now, remote, repo, listed, warned, paging, dest, runs, pushed>>

\* A tag name no backup run of the model gives: the clock starts later.
MissingTag == Format(0)

\* restore --tag <a tag of the remote, a tag it does not have, or none>
\* --target-dir <an empty directory>, with or without --env-id e1 --ws-id w1
StartRestore ==
    /\ cmd = "none"
    /\ \E dry \in BOOLEAN, o \in ListFilters,
          tag \in {t.name : t \in remote.tags} \cup {MissingTag, <<>>} :
          /\ dry => o = NoOpts
          /\ cfg' = [Envs |-> CatalogScope, DryRun |-> dry, Branch |-> "main"]
          /\ opts' = [o EXCEPT !.tag = tag]
    /\ declared' = CatalogScope
    /\ cmd' = "restore"
    /\ pc' = "prerun"
    /\ dest' = {}
    /\ UNCHANGED <<up, err, now, remote, repo, listed, warned, paging, runs, pushed>>

\* The process ends; the temporary directory is not looked at again.
Exit ==
    /\ cmd # "none"
    /\ pc \in {"done", "failed"}
    /\ cmd' = "none"
    /\ pc' = "idle"
    /\ err' = ""
    /\ opts' = NoOpts
    /\ repo' = NoRepo
    /\ listed' = <<>>
    /\ warned' = {}
    /\ paging' = paging
    /\ dest' = {}
    /\ cfg' = [Envs |-> <<>>, DryRun |-> FALSE, Branch |-> "main"]
    /\ declared' = <<>>
    /\ UNCHANGED <<up, now, remote, runs, pushed>>

\* A second passes while no command runs.
Tick ==
    /\ cmd = "none"
    /\ now < ClockStart + MaxTicks
    /\ now' = now + 1
    /\ UNCHANGED <<up, cfg, declared, cmd, opts, pc, err, remote, repo, listed, warned, paging, dest, runs, pushed>>

\* The tenant is edited in PlainID while no command runs.
UpstreamChange ==
    /\ cmd = "none"
    /\ up' \in Tenants \ {up}
    /\ UNCHANGED <<cfg, declared, cmd, opts, pc, err, now, remote, repo, listed, warned, paging, dest, runs, pushed>>

Init ==
    /\ up = Tenant0
    /\ cfg = [Envs |-> <<>>, DryRun |-> FALSE, Branch |-> "main"]
    /\ declared = <<>>
    /\ cmd = "none"
    /\ opts = NoOpts
    /\ pc = "idle"
    /\ err = ""
    /\ now = ClockStart
    /\ remote = EmptyRemote
    /\ repo = NoRepo
    /\ listed = <<>>
    /\ warned = {}
    /\ paging = NoPaging
    /\ dest = {}
    /\ runs = 0
    /\ pushed = {}

\* Backups of every scope to the main branch while the tenant changes.
NextTree ==
    \/ StartBackup(Scopes, {"main"})
    \/ PersistentPreRunE
    \/ Clone
    \/ Synchronize
    \/ Commit
    \/ CreateTag
    \/ PushOrStop
    \/ Exit
    \/ Tick
    \/ UpstreamChange

SpecTree == Init /\ [][NextTree]_vars

\* Backups of p to either branch of the remote.
NextBranches ==
    \/ StartBackup({<<Selector(E1, W1, T1)>>}, Branches)
    \/ PersistentPreRunE
    \/ Clone
    \/ Synchronize
    \/ Commit
    \/ CreateTag
    \/ PushOrStop
    \/ Exit
    \/ Tick

SpecBranches == Init /\ [][NextBranches]_vars

\* Backups of p or q to the main branch, and the catalog and restore commands.
NextCatalog ==
    \/ StartBackup({<<Selector(E1, W1, T1)>>, <<Selector(E12, W1, Star)>>}, {"main"})
    \/ StartList
    \/ StartRestore
    \/ PersistentPreRunE
    \/ Clone
    \/ Synchronize
    \/ Commit
    \/ CreateTag
    \/ PushOrStop
    \/ ListRunE
    \/ RestoreRunE
    \/ Exit
    \/ Tick

SpecCatalog == Init /\ [][NextCatalog]_vars

------------------------------------------------------------------------------
(* The list command over remotes with more snapshots than it prints *)

MaxTags == 11

\* The snapshot of the backup run made t seconds after ClockStart: the one
\* at ClockStart of q with its workspace x, the others of p with its
\* workspace x.
SnapshotTag(t) ==
    LET envID == IF t = 0 THEN E12 ELSE E1
        commit == [NoCommit EXCEPT
                     !.id = t,
                     !.msg = CommitMsgPrefix \o <<" ", "env:">> \o envID \o <<" ", "ws:">> \o W1]
    IN  [name |-> Format(ClockStart + t), commit |-> commit,
         message |-> TagMsgPrefix \o commit.msg]

\* The snapshot of q, and tags that no backup run made: a release tag, and
\* a tag of fourteen digits without the separator.
OtherTags ==
    {SnapshotTag(0),
     [name |-> <<"k", "1">>, commit |-> [NoCommit EXCEPT !.id = MaxTags + 1],
      message |-> <<"k", "1">>],
     [name |-> SelectSeq(Format(ClockStart + MaxTags + 1), LAMBDA c : c # "-"),
      commit |-> [NoCommit EXCEPT !.id = MaxTags + 1],
      message |-> TagMsgPrefix \o CommitMsgPrefix \o <<" ", "env:">> \o E1 \o <<" ", "ws:">> \o W1]}

TagSets ==
    {{SnapshotTag(t) : t \in S} \cup F : S \in SUBSET (1..MaxTags), F \in {{}, OtherTags}}

\* The branch of a remote that holds these tags: at the newest tagged commit.
HeadOf(tags) ==
    IF tags = {} THEN NoCommit
    ELSE (CHOOSE t \in tags : \A o \in tags : o.commit.id <= t.commit.id).commit

InitListing ==
    /\ up = Tenant0
    /\ declared = CatalogScope
    /\ cfg = [Envs |-> ResolveScope(CatalogScope, Tenant0), DryRun |-> FALSE, Branch |-> "main"]
    /\ cmd = "list"
    /\ opts \in ListFilters
    /\ pc = "run"
    /\ err = ""
    /\ now = ClockStart + MaxTags + 1
    /\ \E tags \in TagSets :
          remote = [heads |-> [b \in Branches |-> IF b = "main" THEN HeadOf(tags) ELSE NoCommit],
                    tags |-> tags]
    /\ repo = NoRepo
    /\ listed = <<>>
    /\ warned = {}
    /\ paging = NoPaging
    /\ dest = {}
    /\ runs = 0
    /\ pushed = {}

NextListing == ListRunE

SpecListing == InitListing /\ [][NextListing]_vars

\* Backups and listings on a remote that already holds a commit and the tags
\* somebody else put there.
InitNaming ==
    /\ up = Tenant0
    /\ cfg = [Envs |-> <<>>, DryRun |-> FALSE, Branch |-> "main"]
    /\ declared = <<>>
    /\ cmd = "none"
    /\ opts = NoOpts
    /\ pc = "idle"
    /\ err = ""
    /\ now = ClockStart
    /\ remote = [heads |-> [b \in Branches |-> IF b = "main" THEN HeadOf(OtherTags) ELSE NoCommit],
                 tags |-> OtherTags]
    /\ repo = NoRepo
    /\ listed = <<>>
    /\ warned = {}
    /\ paging = NoPaging
    /\ dest = {}
    /\ runs = 0
    /\ pushed = {}

NextNaming ==
    \/ StartBackup({<<Selector(E1, W1, T1)>>}, {"main"})
    \/ StartList
    \/ PersistentPreRunE
    \/ Clone
    \/ Synchronize
    \/ Commit
    \/ CreateTag
    \/ PushOrStop
    \/ ListRunE
    \/ Exit
    \/ Tick

SpecNaming == InitNaming /\ [][NextNaming]_vars

\* Configuration files that name an id twice, or the wildcard next to an id:
\* p twice, p with x twice, and p with y and the wildcard workspace.
RepeatingScopes ==
    {<<Selector(E1, W1, T1), Selector(E1, W1, T1)>>,
     <<[ID |-> E1, Name |-> Empty,
        Workspaces |-> <<[ID |-> W1, Name |-> Empty], [ID |-> W1, Name |-> Empty]>>,
        Identities |-> <<T1>>]>>,
     <<[ID |-> E1, Name |-> Empty,
        Workspaces |-> <<[ID |-> W2, Name |-> Empty], [ID |-> Star, Name |-> Empty]>>,
        Identities |-> <<Star>>]>>}

\* Backups of such configuration files to the main branch.
NextRepeating ==
    \/ StartBackup(RepeatingScopes, {"main"})
    \/ PersistentPreRunE
    \/ Clone
    \/ Synchronize
    \/ Commit
    \/ CreateTag
    \/ PushOrStop
    \/ Exit
    \/ Tick

SpecRepeating == Init /\ [][NextRepeating]_vars

------------------------------------------------------------------------------
(* Backups while the tenant drifts away from what the last snapshot holds *)

\* The identity template and the PAA group of p were deleted upstream.
TenantBare ==
    [Tenant0 EXCEPT !.idents[E1] = <<>>, !.paa[E1] = <<>>]

\* Environment p was renamed to pp upstream.
TenantRenamed ==
    [Tenant0 EXCEPT !.envs = <<[ID |-> E12, Name |-> <<"q">>],
                               [ID |-> E1, Name |-> <<"p", "p">>]>>]

\* Workspace y of p was renamed to x, the name of its other workspace, and
\* application b was moved to workspace x and renamed to a.
TenantShared ==
    [Tenant0 EXCEPT
        !.wss[E1] = <<[ID |-> W1, Name |-> <<"x">>], [ID |-> W2, Name |-> <<"x">>]>>,
        !.apps[E1] = <<App(A1, <<"a">>, W1), App(A2, <<"a">>, W1)>>]

\* Environment p was deleted upstream, and so was the application of q.
TenantWithoutP ==
    [Tenant0 EXCEPT !.envs = <<[ID |-> E12, Name |-> <<"q">>]>>,
                    !.apps[E12] = <<>>]

DriftTenants == {TenantBare, TenantRenamed, TenantShared, TenantWithoutP}

\* The tenant is edited in PlainID while no command runs.
UpstreamDrift ==
    /\ cmd = "none"
    /\ up = Tenant0
    /\ up' \in DriftTenants
    /\ UNCHANGED <<cfg, declared, cmd, opts, pc, err, now, remote, repo, listed, warned, paging,
                   dest, runs, pushed>>

NextDrift ==
    \/ StartBackup(Scopes, {"main"})
    \/ PersistentPreRunE
    \/ Clone
    \/ Synchronize
    \/ Commit
    \/ CreateTag
    \/ PushOrStop
    \/ Exit
    \/ Tick
    \/ UpstreamDrift

SpecDrift == Init /\ [][NextDrift]_vars

------------------------------------------------------------------------------
(* Scope resolution over bounded selectors and inventories *)

MaxDeclared == 2

EnvNames == {<<"p">>, <<"q">>}
WsNames == {<<"x">>, <<"y">>}
User == <<"U">>

WsSelectors ==
    {<<[ID |-> W1, Name |-> Empty]>>,
     <<[ID |-> W2, Name |-> Empty], [ID |-> W1, Name |-> Empty]>>,
     <<[ID |-> Star, Name |-> Empty]>>,
     <<[ID |-> W2, Name |-> Empty], [ID |-> Star, Name |-> Empty]>>}

EnvSelectors ==
    {[ID |-> id, Name |-> Empty, Workspaces |-> ws, Identities |-> ids] :
        id \in EnvIds, ws \in WsSelectors, ids \in {<<User>>, <<Star>>}}
    \cup {[ID |-> Star, Name |-> Empty, Workspaces |-> <<>>, Identities |-> <<>>]}

RECURSIVE SeqsUpTo(_, _)
SeqsUpTo(S, n) ==
    IF n = 0 THEN {<<>>}
    ELSE LET shorter == SeqsUpTo(S, n - 1)
         IN  shorter \cup {Append(s, x) : s \in shorter, x \in S}

Declarations == SeqsUpTo(EnvSelectors, MaxDeclared) \ {<<>>}

LiveEnvLists ==
    {<<>>,
     <<[ID |-> E1, Name |-> <<"p">>]>>,
     <<[ID |-> E12, Name |-> <<"q">>], [ID |-> E1, Name |-> <<"p">>]>>}

LiveWsLists ==
    {<<>>,
     <<[ID |-> W1, Name |-> <<"x">>]>>,
     <<[ID |-> W2, Name |-> <<"y">>], [ID |-> W1, Name |-> <<"x">>]>>}

LiveIdentLists == {<<>>, <<T2, T1>>}

NoApps == [e \in EnvIds |-> <<>>]

Inventories ==
    {[envs |-> es, wss |-> ws, idents |-> ids, apps |-> NoApps, paa |-> NoApps] :
        es \in LiveEnvLists,
        ws \in [EnvIds -> LiveWsLists],
        ids \in [EnvIds -> LiveIdentLists]}

InitResolve ==
    /\ up \in Inventories
    /\ declared \in Declarations
    /\ cfg = [Envs |-> declared, DryRun |-> FALSE, Branch |-> "main"]
    /\ cmd = "backup"
    /\ opts = NoOpts
    /\ pc = "prerun"
    /\ err = ""
    /\ now = ClockStart
    /\ remote = EmptyRemote
    /\ repo = NoRepo
    /\ listed = <<>>
    /\ warned = {}
    /\ paging = NoPaging
    /\ dest = {}
    /\ runs = 1
    /\ pushed = {}

NextResolve == PersistentPreRunE

SpecResolve == InitResolve /\ [][NextResolve]_vars

------------------------------------------------------------------------------
(* Service.Applications: the page loop of the application listing *)

\* limit := 50, scaled down.
PageLimit == 2

\* The width of int, scaled down; offset is an int.
IntBits == 4

\* The most applications of the requested workspace that the server returns
\* over one listing.
MaxPaged == 2

MaxInt == 2 ^ (IntBits - 1) - 1

\* Two's complement addition of int.
WrapInt(n) == ((n + MaxInt + 1) % (2 * (MaxInt + 1))) - (MaxInt + 1)

\* The pages a server can answer with: up to limit entries (the Data of
\* appResp), each an application of the environment.
Pages(u, envID) ==
    UNION {[1..n -> {u.apps[envID][i] : i \in 1..Len(u.apps[envID])}] : n \in 0..PageLimit}

\* offset := 0 and the empty appInfos, for one workspace of environment p.
StartApplications ==
    /\ paging.pc = "idle"
    /\ \E wsID \in {W1, W2} :
          paging' = [pc |-> "request", envID |-> E1, wsID |-> wsID, offset |-> 0,
                     appInfos |-> <<>>]
    /\ UNCHANGED <<up, cfg, declared, cmd, opts, pc, err, now, remote, repo, listed, warned,
                   dest, runs, pushed>>

\* One pass of the for loop: the GET with limit and offset, the answer the
\* server chooses (Data and Total), the append of the entries whose WSID is
\* the requested one, and the break or offset += limit. A failed request or
\* a status other than 200 returns the error.
ApplicationsPage ==
    /\ paging.pc = "request"
    /\ \/ \E data \in Pages(up, paging.envID), total \in 0..MaxInt :
             LET appInfos == paging.appInfos \o
                             SelectSeq(data, LAMBDA a : a.WSID = paging.wsID)
             IN  /\ Len(appInfos) <= MaxPaged
                 /\ paging' =
                       IF \/ Len(data) < PageLimit
                          \/ WrapInt(paging.offset + Len(data)) >= total
                       THEN [paging EXCEPT !.pc = "done", !.appInfos = appInfos]
                       ELSE [paging EXCEPT !.appInfos = appInfos,
                                           !.offset = WrapInt(paging.offset + PageLimit)]
       \/ paging' = [paging EXCEPT !.pc = "failed"]
    /\ UNCHANGED <<up, cfg, declared, cmd, opts, pc, err, now, remote, repo, listed, warned,
                   dest, runs, pushed>>

NextPaging ==
    \/ StartApplications
    \/ ApplicationsPage

\* The loop runs on as long as it has not returned.
SpecPaging == Init /\ [][NextPaging]_vars /\ WF_vars(ApplicationsPage)

------------------------------------------------------------------------------
(* Claims about scope resolution *)

IdsOf(s) == [i \in 1..Len(s) |-> s[i].ID]
IdNamesOf(s) == [i \in 1..Len(s) |-> [ID |-> s[i].ID, Name |-> s[i].Name]]
Keep(s, S) == SelectSeq(s, LAMBDA x : x \in S)
SeqRange(s) == {s[i] : i \in 1..Len(s)}
DeclaresWildcardEnv == \E i \in 1..Len(declared) : declared[i].ID = Star
DeclaresOnlyConcreteIds ==
    \A i \in 1..Len(declared) :
        /\ declared[i].ID # Star
        /\ \A j \in 1..Len(declared[i].Workspaces) : declared[i].Workspaces[j].ID # Star
\* The declared environments that inventory knows, in declaration order.
Surviving == SelectSeq(declared, LAMBDA d : d.ID \in SeqRange(IdsOf(up.envs)))

\* C1: when the declared environment list contains the wildcard, the resolved
\* scope is exactly the environments listEnvironments() returns, in that order
\* and with their names, and each holds exactly the workspaces of
\* listWorkspaces(env) and the template ids of listIdentities(env).
C1_WildcardCompleteness ==
    (pc = "run" /\ DeclaresWildcardEnv) =>
        /\ IdNamesOf(cfg.Envs) = IdNamesOf(up.envs)
        /\ \A i \in 1..Len(cfg.Envs) :
              /\ IdNamesOf(cfg.Envs[i].Workspaces) = IdNamesOf(up.wss[cfg.Envs[i].ID])
              /\ cfg.Envs[i].Identities = up.idents[cfg.Envs[i].ID]

C1_Witness ==
    /\ pc = "run"
    /\ Len(declared) = 2
    /\ declared[1].ID = E1
    /\ declared[2].ID = Star
    /\ Len(cfg.Envs) = 2
    /\ Len(cfg.Envs[1].Workspaces) = 2
    /\ Len(cfg.Envs[2].Identities) = 2

\* C2: when only concrete ids are declared, the resolved environments are the
\* declared ones that inventory knows (none added, none absent from inventory
\* kept), and each holds the declared workspace ids that are live in it.
C2_NonWildcardFiltering ==
    (pc = "run" /\ DeclaresOnlyConcreteIds) =>
        /\ IdsOf(cfg.Envs) = IdsOf(Surviving)
        /\ \A i \in 1..Len(cfg.Envs) :
              /\ cfg.Envs[i].ID \in SeqRange(IdsOf(up.envs))
              /\ i <= Len(Surviving)
              /\ IdsOf(cfg.Envs[i].Workspaces) =
                    Keep(IdsOf(Surviving[i].Workspaces),
                         SeqRange(IdsOf(up.wss[cfg.Envs[i].ID])))

C2_Witness ==
    /\ pc = "run"
    /\ DeclaresOnlyConcreteIds
    /\ Len(declared) = 2
    /\ Len(cfg.Envs) = 1
    /\ Len(declared[2].Workspaces) = 2
    /\ cfg.Envs[1].ID = declared[2].ID
    /\ Len(cfg.Envs[1].Workspaces) = 1

------------------------------------------------------------------------------
(* Claims about the backup run *)

\* The paths of a tree.
PathsOf(tree) == {f.path : f \in tree}

\* A backup run that cloned the branch finds, at its head, the commit the
\* previous pushed run made there.
ClonedFromPushedRun == cmd = "backup" /\ repo.base.id # 0

SameScopeSameUpstream ==
    /\ ClonedFromPushedRun
    /\ repo.base.scope = cfg.Envs
    /\ repo.base.tenant = up

\* C3: when a backup run follows a pushed run over the same resolved scope
\* and unchanged upstream data, the working tree after its synchronization is
\* the tree the first run committed (same paths, same contents), and what it
\* commits is that tree again: the staged diff is empty.
C3_TreeIdempotence ==
    SameScopeSameUpstream =>
        /\ pc = "synced" => repo.tree = repo.base.tree
        /\ pc \in {"committed", "tagged", "done"} =>
              /\ repo.head.id = runs
              /\ repo.head.tree = repo.base.tree

C3_Witness ==
    /\ SameScopeSameUpstream
    /\ pc = "committed"
    /\ repo.head.id = 2
    /\ repo.base.id = 1
    /\ repo.timestamp # Format(ClockStart)
    /\ repo.head.tree = repo.base.tree
    /\ \E f \in repo.head.tree : Len(f.path) = 4
    /\ \E f \in repo.head.tree : Len(f.path) = 2

\* The file X of the cloned tree lies in the directory of an application of
\* a workspace in scope, and the application list of that workspace no
\* longer has an application of that name.
DeletedUpstream(X) ==
    /\ Len(X.path) = 4
    /\ \E i \in 1..Len(cfg.Envs) :
          /\ X.path[1] = cfg.Envs[i].Name \o <<"_">> \o cfg.Envs[i].ID
          /\ \E j \in 1..Len(cfg.Envs[i].Workspaces) :
                cfg.Envs[i].Workspaces[j].Name = X.path[2]
          /\ \A j \in 1..Len(cfg.Envs[i].Workspaces) :
                cfg.Envs[i].Workspaces[j].Name = X.path[2] =>
                    \A k \in 1..Len(up.apps[cfg.Envs[i].ID]) :
                        LET app == up.apps[cfg.Envs[i].ID][k]
                        IN  app.WSID = cfg.Envs[i].Workspaces[j].ID => app.Name # X.path[3]

\* C4: a file of the cloned tree under the directory of an application that
\* the upstream application list of its in-scope workspace no longer returns
\* is absent from the tree after the synchronization, and the commit of the
\* run does not hold it while its parent does (it is recorded as deleted).
C4_DeletionCorrectness ==
    ClonedFromPushedRun =>
        \A X \in repo.base.tree :
            DeletedUpstream(X) =>
                /\ pc = "synced" => X.path \notin PathsOf(repo.tree)
                /\ pc \in {"committed", "tagged", "done"} =>
                      /\ repo.head.id = runs
                      /\ X.path \notin PathsOf(repo.head.tree)

C4_Witness ==
    /\ ClonedFromPushedRun
    /\ pc = "committed"
    /\ repo.head.id = runs
    /\ \E X \in repo.base.tree :
          /\ DeletedUpstream(X)
          /\ X.path \notin PathsOf(repo.head.tree)
    /\ \E f \in repo.head.tree : Len(f.path) = 4

------------------------------------------------------------------------------
(* Claims about snapshots, the catalog and the restore *)

TokensOf(message) == SeqRange(Split(message, " "))

FilteredListDone ==
    cmd = "list" /\ pc = "done" /\ opts.envID # <<>> /\ opts.wsID # <<>>

\* C6: every snapshot that list --env-id E --ws-id W prints has both env:E
\* and ws:W among the space-delimited tokens of its tag message.
C6_CatalogFilterExactness ==
    FilteredListDone =>
        \A i \in 1..Len(listed) :
            /\ (<<"env:">> \o opts.envID) \in TokensOf(listed[i].Message)
            /\ (<<"ws:">> \o opts.wsID) \in TokensOf(listed[i].Message)

\* The errors of the scope resolution that precedes every command.
InventoryErrors == {"Environments", "Workspaces", "Identities"}

\* The environments of a resolved scope that hold the pair (envID, wsID).
ScopeHolds(scope, envID, wsID) ==
    \E i \in 1..Len(scope) :
        /\ scope[i].ID = envID
        /\ \E j \in 1..Len(scope[i].Workspaces) : scope[i].Workspaces[j].ID = wsID

\* What a filtered restore of the snapshot is to put into an empty directory:
\* the files below the workspace's directory, at their place relative to it,
\* and the files directly in the environment's directory.
ExpectedRestore(snapshot, envID, wsID) ==
    UNION {
        {[path |-> SubSeq(f.path, 3, Len(f.path)), data |-> f.data] :
            f \in {g \in snapshot.tree :
                     /\ Len(g.path) > 2
                     /\ g.path[1] = snapshot.scope[i].Name \o <<"_">> \o envID
                     /\ \E j \in 1..Len(snapshot.scope[i].Workspaces) :
                           /\ snapshot.scope[i].Workspaces[j].ID = wsID
                           /\ g.path[2] = snapshot.scope[i].Workspaces[j].Name}}
        \cup
        {[path |-> <<f.path[2]>>, data |-> f.data] :
            f \in {g \in snapshot.tree :
                     /\ Len(g.path) = 2
                     /\ g.path[1] = snapshot.scope[i].Name \o <<"_">> \o envID}} :
        i \in {k \in 1..Len(snapshot.scope) : snapshot.scope[k].ID = envID}}

\* C7: a restore of a tag whose backup held (E, W), with the filter (E, W)
\* and an empty destination, completes, and the destination then holds
\* exactly the workspace's subtree and the environment's own files.
C7_RestoreRoundTrip ==
    \A t \in remote.tags :
        ( /\ cmd = "restore"
          /\ pc \in {"done", "failed"}
          /\ err \notin InventoryErrors
          /\ opts.tag = t.name
          /\ opts.envID # <<>>
          /\ opts.wsID # <<>>
          /\ ScopeHolds(t.commit.scope, opts.envID, opts.wsID) )
        => /\ pc = "done"
           /\ dest = ExpectedRestore(t.commit, opts.envID, opts.wsID)

\* C8: a backup run with --dry-run leaves the remote as it was and ends with
\* its commit and its tag in the local repository; a restore with --dry-run
\* that completes has written the files of the snapshot into the destination.
C8_DryRunNonMutation ==
    [][ /\ (cmd = "backup" /\ cfg.DryRun) => remote' = remote
        /\ (cmd' = "backup" /\ cfg'.DryRun /\ pc' = "done") =>
              /\ repo'.head.id = runs'
              /\ \E t \in repo'.tags : t.name = repo'.timestamp /\ t.commit = repo'.head
        /\ (cmd' = "restore" /\ cfg'.DryRun /\ pc' = "done") =>
              \A t \in remote'.tags :
                  (t.name = opts'.tag /\ t.commit.tree # {}) => dest' # {} ]_vars

C10_SnapshotVisibility ==
    (cmd = "list" /\ pc = "done") =>
        \A i \in 1..Len(listed) : listed[i].run \in pushed

------------------------------------------------------------------------------
(* Claims about failures, the order of a run, the catalog and the scope     *)

\* The directory of the k-th step of the loop: of the environment, or of the
\* workspace in it.
StepDir(cfgEnvs, k) ==
    LET step == WorkList(cfgEnvs)[k]
        env == cfgEnvs[step.env]
    IN  IF step.kind = "env"
        THEN <<env.Name \o <<"_">> \o env.ID>>
        ELSE <<env.Name \o <<"_">> \o env.ID, env.Workspaces[step.ws].Name>>

FilesUnder(tree, dir) ==
    {f \in tree : Len(f.path) > Len(dir) /\ SubSeq(f.path, 1, Len(dir)) = dir}

\* The application.json files of the workspace of the k-th step.
ApplicationFilesOf(u, cfgEnvs, k) ==
    LET step == WorkList(cfgEnvs)[k]
        env == cfgEnvs[step.env]
        ws == env.Workspaces[step.ws]
    IN  {StepDir(cfgEnvs, k) \o <<u.apps[env.ID][a].Name, <<"application.json">>>> :
            a \in {b \in 1..Len(u.apps[env.ID]) : u.apps[env.ID][b].WSID = ws.ID}}

\* C11: when the synchronization of a backup run fails, the run ends with an
\* error; the steps after the failed one have written nothing; the files of
\* the workspaces completed before it are still in the scratch tree; nothing
\* is committed, tagged or pushed, then or until the process ends.
C11_AbortOnFailure ==
    [][ /\ (cmd = "backup" /\ pc = "cloned" /\ pc' = "failed") =>
              /\ err' # ""
              /\ repo'.done < Len(WorkList(cfg.Envs))
              /\ \A k \in (repo'.done + 2)..Len(WorkList(cfg.Envs)) :
                    FilesUnder(repo'.tree, StepDir(cfg.Envs, k))
                        \subseteq FilesUnder(repo.tree, StepDir(cfg.Envs, k))
              /\ \A k \in 1..repo'.done :
                    WorkList(cfg.Envs)[k].kind = "ws" =>
                        ApplicationFilesOf(up, cfg.Envs, k) \subseteq PathsOf(repo'.tree)
              /\ repo'.head = repo.head
              /\ repo'.tags = repo.tags
              /\ remote' = remote
              /\ pushed' = pushed
        /\ (cmd = "backup" /\ pc = "failed") =>
              /\ cmd' = "none"
              /\ remote' = remote
              /\ pushed' = pushed ]_vars

\* A fetch failed after a workspace with an application was completed and
\* before the last step of the loop; the files of the completed workspace are
\* in the scratch tree.
C11_Witness ==
    /\ cmd = "backup" /\ pc = "failed"
    /\ err = "failed to fetch or write"
    /\ repo.done + 1 < Len(WorkList(cfg.Envs))
    /\ \E k \in 1..repo.done :
          /\ WorkList(cfg.Envs)[k].kind = "ws"
          /\ ApplicationFilesOf(up, cfg.Envs, k) # {}
          /\ ApplicationFilesOf(up, cfg.Envs, k) \subseteq PathsOf(repo.tree)
    /\ repo.base.id = 0
    /\ FilesUnder(repo.tree, StepDir(cfg.Envs, repo.done + 1)) # {}
    /\ repo.head = repo.base
    /\ \A t \in repo.tags : t.commit.id # runs

\* C12: when an inventory call of the scope resolution fails, the command
\* ends with its error before anything is cloned, written, committed, tagged
\* or pushed, and the configuration holds the scope exactly as declared.
C12_ResolutionFailFast ==
    [][ /\ (pc = "prerun" /\ pc' = "failed") =>
              /\ err' \in {"Environments", "Workspaces", "Identities"}
              /\ cfg'.Envs = declared
              /\ repo' = NoRepo
              /\ dest' = {}
              /\ remote' = remote
              /\ pushed' = pushed
        /\ (pc = "failed" /\ err \in {"Environments", "Workspaces", "Identities"}) =>
              /\ cmd' = "none"
              /\ remote' = remote
              /\ pushed' = pushed ]_vars

\* The workspace or identity listing of a backup with the wildcard scope
\* failed after the environments were listed.
C12_Witness ==
    /\ cmd = "backup" /\ pc = "failed"
    /\ err \in {"Workspaces", "Identities"}
    /\ \E i \in 1..Len(declared) : declared[i].ID = <<"*">>
    /\ cfg.Envs = declared
    /\ repo = NoRepo

\* The tags of the remote that the list command is to present: recognized as
\* snapshots, and passing the filter of the command.
PassingTags ==
    {t \in remote.tags : ParseTime(t.name).ok /\ PassesFilter(t.message, opts)}

SecondsOf(name) == ParseTime(name).secs

\* C13: the list command presents min(10, n) snapshots, n being the number
\* of snapshots that pass the filter; they are in strictly decreasing order
\* of their parsed timestamps, and every snapshot passing the filter that is
\* not presented is older than every one presented.
C13_CatalogOrderAndLimit ==
    (cmd = "list" /\ pc = "done") =>
        /\ Len(listed) = IF Cardinality(PassingTags) < 10 THEN Cardinality(PassingTags) ELSE 10
        /\ \A i \in 1..Len(listed) : \E t \in PassingTags : t.name = listed[i].Name
        /\ \A i, j \in 1..Len(listed) :
              i < j => SecondsOf(listed[j].Name) < SecondsOf(listed[i].Name)
        /\ \A t \in PassingTags :
              (\A i \in 1..Len(listed) : listed[i].Name # t.name) =>
                  \A i \in 1..Len(listed) : SecondsOf(t.name) < SecondsOf(listed[i].Name)

\* A filtered listing of a remote with more than ten snapshots that pass the
\* filter and tags that are no snapshots: ten are presented, and a snapshot
\* older than these is not.
C13_Witness ==
    /\ cmd = "list" /\ pc = "done"
    /\ opts.envID # <<>>
    /\ Cardinality(PassingTags) > 10
    /\ \E t \in remote.tags \ PassingTags : Len(t.name) = 14
    /\ Len(listed) = 10
    /\ \E t \in PassingTags : SecondsOf(t.name) < SecondsOf(listed[10].Name)

\* The tags the backup runs of the model made, in the repository of the
\* running command or on the remote.
TagsOfRuns == {t \in repo.tags \cup remote.tags : t.commit.id \in 1..runs}

AllDigits(s) == \A i \in 1..Len(s) : s[i] \in {"0", "1", "2", "3", "4", "5", "6", "7", "8", "9"}

\* YYYYMMDD-HHMMSS: eight digits, the separator, six digits.
HasSeparatedLayout(name) ==
    /\ Len(name) = 15
    /\ name[9] = "-"
    /\ AllDigits(SubSeq(name, 1, 8))
    /\ AllDigits(SubSeq(name, 10, 15))

\* YYYYMMDDHHMMSS: fourteen digits.
HasFourteenDigits(name) == Len(name) = 14 /\ AllDigits(name)

ListedNames == {listed[i].Name : i \in 1..Len(listed)}

UnfilteredListDone == cmd = "list" /\ pc = "done" /\ opts.envID = <<>> /\ opts.wsID = <<>>

\* C14: the tag a backup run creates is named by the time the run read, as
\* YYYYMMDD-HHMMSS (eight digits, the separator, six digits, to the second),
\* and the tags an unfiltered listing presents are exactly the tags of the
\* remote with a name of that layout.
C14_TagNaming ==
    /\ \A t \in TagsOfRuns : HasSeparatedLayout(t.name)
    /\ (cmd = "backup" /\ pc = "tagged") =>
          \E t \in repo.tags :
              /\ t.commit.id = runs
              /\ SecondsOf(t.name) = now
    /\ UnfilteredListDone =>
          ListedNames = {t.name : t \in {u \in remote.tags : HasSeparatedLayout(u.name)}}

\* C14 as stated: the tag is named with fourteen digits without a separator,
\* and the listing presents exactly the tags with such a name.
C14_AsStated ==
    /\ \A t \in TagsOfRuns : HasFourteenDigits(t.name)
    /\ UnfilteredListDone =>
          ListedNames = {t.name : t \in {u \in remote.tags : HasFourteenDigits(u.name)}}

\* An unfiltered listing of a remote that holds a tag a backup run made
\* after the minute changed, a tag of fourteen digits and a release tag: the
\* first is presented, the others are not.
C14_Witness ==
    /\ UnfilteredListDone
    /\ \E t \in remote.tags :
          /\ t.commit.id \in 1..runs
          /\ SecondsOf(t.name) > 59
          /\ t.name \in ListedNames
    /\ \E t \in remote.tags : HasFourteenDigits(t.name) /\ t.name \notin ListedNames
    /\ \E t \in remote.tags : Len(t.name) = 2 /\ t.name \notin ListedNames

\* " env:<envId> ws:<wsId>" for the workspaces among the first n steps of the
\* loop, in the order of the loop.
RECURSIVE PairsOfSteps(_, _)
PairsOfSteps(cfgEnvs, n) ==
    IF n = 0 THEN <<>>
    ELSE LET step == WorkList(cfgEnvs)[n]
         IN  PairsOfSteps(cfgEnvs, n - 1) \o
             (IF step.kind = "ws"
              THEN <<" ", "env:">> \o cfgEnvs[step.env].ID
                   \o <<" ", "ws:">> \o cfgEnvs[step.env].Workspaces[step.ws].ID
              ELSE <<>>)

\* C15: the commit message of a backup run is the fixed prefix followed by
\* one pair " env:<envId> ws:<wsId>" for every workspace whose
\* synchronization completed, in processing order and with the environment
\* word in every pair; a run that commits has completed every workspace of
\* its scope, and a workspace that was not completed has no pair.
C15_CommitMessage ==
    (cmd = "backup" /\ pc \in {"synced", "committed", "tagged", "done", "failed"}
        /\ repo.commitMsg # <<>>) =>
        /\ repo.commitMsg =
              <<"Backup", " ", "PlainID", " ", "configuration", " ", "for:">>
                  \o PairsOfSteps(cfg.Envs, repo.done)
        /\ pc \in {"synced", "committed", "tagged", "done"} =>
              repo.done = Len(WorkList(cfg.Envs))
        /\ pc \in {"committed", "tagged", "done"} => repo.head.msg = repo.commitMsg

\* A commit of two environments, the second with two workspaces: its message
\* has three pairs.
C15_Witness ==
    /\ cmd = "backup" /\ pc = "committed"
    /\ Len(cfg.Envs) = 2
    /\ Len(cfg.Envs[2].Workspaces) = 2
    /\ Len(SelectSeq(repo.head.msg, LAMBDA c : c = "env:")) = 3
    /\ Len(SelectSeq(repo.head.msg, LAMBDA c : c = "ws:")) = 3

\* The position of a backup run in its order of steps.
StepRank(p) ==
    CASE p = "prerun" -> 1
      [] p = "run" -> 2
      [] p = "cloned" -> 3
      [] p = "synced" -> 4
      [] p = "committed" -> 5
      [] p = "tagged" -> 6
      [] p = "done" -> 7
      [] OTHER -> 0

HasWildcardLeft(cfgEnvs) ==
    \E i \in 1..Len(cfgEnvs) :
        \/ cfgEnvs[i].ID = <<"*">>
        \/ \E j \in 1..Len(cfgEnvs[i].Workspaces) : cfgEnvs[i].Workspaces[j].ID = <<"*">>

\* C16: a backup run resolves its scope, synchronizes every environment and
\* workspace of it, commits, tags and pushes (or stops before the push, in a
\* dry run), each step once and in that order: the commit is made of a
\* completed synchronization of a resolved scope, the tag is made of the
\* commit of the run, the remote changes only in the push, which follows the
\* tag; after a failed step the run does nothing but end.
C16_RunOrdering ==
    [][ /\ (cmd = "backup" /\ cmd' = "backup") =>
              /\ pc \notin {"done", "failed"}
              /\ pc' = "failed" \/ StepRank(pc') = StepRank(pc) + 1
              /\ runs' = runs
        /\ (cmd = "backup" /\ pc \in {"done", "failed"}) => cmd' = "none"
        /\ (cmd = "backup" /\ pc' = "cloned") => ~HasWildcardLeft(cfg'.Envs)
        /\ (cmd = "backup" /\ repo'.head.id = runs /\ repo.head.id # runs) =>
              /\ pc = "synced" /\ pc' = "committed"
              /\ repo.done = Len(WorkList(cfg.Envs))
              /\ repo'.head.msg = repo.commitMsg
        /\ (cmd = "backup" /\ \E t \in repo'.tags \ repo.tags : t.commit.id = runs) =>
              /\ pc = "committed" /\ pc' = "tagged"
              /\ repo.head.id = runs
        /\ remote' # remote =>
              /\ cmd = "backup" /\ pc = "tagged" /\ ~cfg.DryRun
              /\ repo.head.id = runs
              /\ \E t \in repo.tags : t.commit = repo.head
        /\ (cmd = "backup" /\ pc = "tagged" /\ cfg.DryRun) =>
              pc' = "done" /\ remote' = remote ]_vars

\* A run over the wildcard scope that went through every step and pushed its
\* commit and its tag.
C16_Witness ==
    /\ cmd = "backup" /\ pc = "done" /\ ~cfg.DryRun
    /\ \E i \in 1..Len(declared) : declared[i].ID = <<"*">>
    /\ Len(WorkList(cfg.Envs)) = 5
    /\ remote.heads[cfg.Branch].id = runs
    /\ \E t \in remote.tags : t.commit = repo.head /\ t.commit.id = runs

\* C17: a restore with --tag that completes has copied the tree of that tag
\* of the remote (all of it, when no filter is given), and a restore of a tag
\* the remote does not have ends with an error.
C17_RestoreMaterializesTag ==
    (cmd = "restore" /\ pc \in {"done", "failed"} /\ opts.tag # <<>>) =>
        /\ (\A t \in remote.tags : t.name # opts.tag) => pc = "failed"
        /\ \A t \in remote.tags :
              (t.name = opts.tag /\ pc = "done" /\ opts.envID = <<>> /\ opts.wsID = <<>>) =>
                  dest = t.commit.tree

\* The tree has a top-level directory ending in _<envID> with a workspace
\* directory that matches the filter.
HasMatchingDirectory(tree, cfgEnvs, envID, wsID) ==
    \E f \in tree :
        /\ Len(f.path) > 2
        /\ HasSuffix(f.path[1], <<"_">> \o envID)
        /\ findWorkspaceByNameOrID(cfgEnvs, envID, wsID, f.path[2])

\* C18: a restore with --env-id E --ws-id W of a tag whose tree has no
\* top-level directory ending in _E with a matching workspace directory ends
\* with the error that the configuration could not be found, and the
\* destination holds no file.
C18_RestoreScopeMismatch ==
    \A t \in remote.tags :
        ( /\ cmd = "restore"
          /\ pc \in {"done", "failed"}
          /\ err \notin {"Environments", "Workspaces", "Identities"}
          /\ opts.tag = t.name
          /\ opts.envID # <<>>
          /\ opts.wsID # <<>>
          /\ ~HasMatchingDirectory(t.commit.tree, cfg.Envs, opts.envID, opts.wsID) )
        => /\ pc = "failed"
           /\ err = "could not find configuration"
           /\ dest = {}

\* A restore of p and x from the snapshot of a backup of q has failed, and
\* nothing was copied.
C18_Witness ==
    /\ cmd = "restore" /\ pc = "failed"
    /\ err = "could not find configuration"
    /\ opts.envID = E1 /\ opts.wsID = W1
    /\ dest = {}
    /\ \E t \in remote.tags :
          /\ t.name = opts.tag
          /\ t.commit.tree # {}
          /\ \E f \in t.commit.tree : Len(f.path) > 2
          /\ ~HasMatchingDirectory(t.commit.tree, cfg.Envs, opts.envID, opts.wsID)

\* C19: a list command whose clone or whose fetch of the tags failed ends
\* with an error and presents nothing; a listing that is presented is made
\* of all the tags of the remote (none that passes the filter is missing
\* while fewer than ten are presented).
C19_ListAbortsOnRemoteFailure ==
    (cmd = "list" /\ pc \in {"done", "failed"}) =>
        /\ warned # {} => (pc = "failed" /\ listed = <<>>)
        /\ pc = "failed" => listed = <<>>
        /\ (pc = "done" /\ Len(listed) < 10) =>
              \A t \in PassingTags : t.name \in ListedNames

\* C20: after a scope resolution that succeeded, no environment id, no
\* workspace id and no identity entry of the configuration is "*", and every
\* environment and every workspace has the name that the inventory reports
\* for its id.
C20_ResolvedScope ==
    pc = "run" =>
        \A i \in 1..Len(cfg.Envs) :
            LET env == cfg.Envs[i]
            IN  /\ env.ID # <<"*">>
                /\ \A k \in 1..Len(env.Identities) : env.Identities[k] # <<"*">>
                /\ \E k \in 1..Len(up.envs) :
                      up.envs[k].ID = env.ID /\ up.envs[k].Name = env.Name
                /\ \A j \in 1..Len(env.Workspaces) :
                      /\ env.Workspaces[j].ID # <<"*">>
                      /\ \E k \in 1..Len(up.wss[env.ID]) :
                            /\ up.wss[env.ID][k].ID = env.Workspaces[j].ID
                            /\ up.wss[env.ID][k].Name = env.Workspaces[j].Name

\* A concrete environment declared with a concrete workspace and the
\* wildcard identity, and a second one with the wildcard workspace: both
\* are resolved, with workspaces and identities.
C20_Witness ==
    /\ pc = "run"
    /\ Len(declared) = 2
    /\ declared[1].ID # <<"*">> /\ declared[2].ID # <<"*">>
    /\ declared[1].Identities = <<<<"*">>>>
    /\ declared[1].Workspaces[1].ID # <<"*">>
    /\ \E j \in 1..Len(declared[2].Workspaces) : declared[2].Workspaces[j].ID = <<"*">>
    /\ Len(cfg.Envs) = 2
    /\ cfg.Envs[1].Workspaces # <<>>
    /\ Len(cfg.Envs[1].Identities) = 2
    /\ Len(cfg.Envs[2].Workspaces) = 2

------------------------------------------------------------------------------
(* Claims about what a run processes and what it leaves in the tree *)

\* What the k-th step of the loop processes: an environment, or a workspace
\* of an environment.
StepKey(cfgEnvs, k) ==
    LET step == WorkList(cfgEnvs)[k]
    IN  IF step.kind = "env"
        THEN <<cfgEnvs[step.env].ID>>
        ELSE <<cfgEnvs[step.env].ID, cfgEnvs[step.env].Workspaces[step.ws].ID>>

\* How often the words of the pair follow each other in the message.
OccurrencesOf(msg, envID, wsID) ==
    LET pair == <<" ", "env:">> \o envID \o <<" ", "ws:">> \o wsID
    IN  Cardinality({p \in 1..Len(msg) :
            /\ p + Len(pair) - 1 <= Len(msg)
            /\ SubSeq(msg, p, p + Len(pair) - 1) = pair
            /\ (p + Len(pair) <= Len(msg) => msg[p + Len(pair)] = " ")})

\* C21: a backup run that completed its synchronization has processed every
\* environment of its scope once and every pair (envId, wsId) of it once, and
\* its commit message names every processed pair exactly once.
C21_ExactlyOnce ==
    (cmd = "backup" /\ pc \in {"synced", "committed", "tagged", "done"}) =>
        /\ \A a, b \in 1..Len(WorkList(cfg.Envs)) :
              a # b => StepKey(cfg.Envs, a) # StepKey(cfg.Envs, b)
        /\ \A k \in 1..Len(WorkList(cfg.Envs)) :
              Len(StepKey(cfg.Envs, k)) = 2 =>
                  OccurrencesOf(repo.commitMsg, StepKey(cfg.Envs, k)[1],
                                StepKey(cfg.Envs, k)[2]) = 1

------------------------------------------------------------------------------
(* Claims about the page loop *)

\* C22: the application listing terminates whatever the server answers: the
\* page loop that was started returns, with the applications or an error.
C22_PaginationTerminates ==
    (paging.pc = "request") ~> (paging.pc \in {"done", "failed"})

------------------------------------------------------------------------------
(* Claims about a run on a tree that an earlier run left *)

Range(seq) == {seq[i] : i \in 1..Len(seq)}

\* The names of the files directly in a top-level directory.
FileNamesIn(tree, dir) ==
    {f.path[2] : f \in {g \in tree : Len(g.path) = 2 /\ g.path[1] = dir}}

SyncSucceeded == cmd = "backup" /\ pc \in {"synced", "committed", "tagged", "done"}

\* C23: after the synchronization of a run succeeded, the files directly in
\* the directory of each environment of the scope are one identity template
\* file per resolved identity and one file per PAA group of the tenant, and
\* nothing else: a file of either kind that the clone held for a template or
\* group that is gone upstream is gone from the tree.
C23_EnvironmentFilesExact ==
    SyncSucceeded =>
        \A i \in 1..Len(cfg.Envs) :
            FileNamesIn(repo.tree, cfg.Envs[i].Name \o <<"_">> \o cfg.Envs[i].ID) =
                {<<"identity-template-">> \o id \o <<".json">> :
                    id \in Range(cfg.Envs[i].Identities)}
                \cup {<<"paa-group_">> \o g \o <<".json">> :
                    g \in Range(up.paa[cfg.Envs[i].ID])}

\* The clone held an identity template file and a PAA group file of an
\* environment of the scope, and the synchronized tree holds neither.
C23_Witness ==
    /\ SyncSucceeded
    /\ \E i \in 1..Len(cfg.Envs) :
          LET dir == cfg.Envs[i].Name \o <<"_">> \o cfg.Envs[i].ID
              gone == FileNamesIn(repo.base.tree, dir) \ FileNamesIn(repo.tree, dir)
          IN  /\ \E n \in gone : HasPrefix(n, <<"identity-template-">>)
              /\ \E n \in gone : HasPrefix(n, <<"paa-group_">>)

\* The files of the clone that lie in a workspace directory of environment
\* env which is none of the workspaces of the resolved scope.
OutOfScopeWorkspaceFiles(env) ==
    {f \in repo.base.tree :
        /\ Len(f.path) >= 3
        /\ f.path[1] = env.Name \o <<"_">> \o env.ID
        /\ \A j \in 1..Len(env.Workspaces) : env.Workspaces[j].Name # f.path[2]}

\* C26: after the environments of a run were synchronized, a workspace
\* directory of such an environment that the clone held and that is not in
\* the resolved scope holds no file, and the commit of the run holds none of
\* its files either: they are recorded as deleted.
C26_OutOfScopeWorkspacesEmptied ==
    \A i \in 1..Len(cfg.Envs) :
        \A f \in OutOfScopeWorkspaceFiles(cfg.Envs[i]) :
            /\ SyncSucceeded =>
                  \A g \in repo.tree : SubSeq(g.path, 1, 2) # SubSeq(f.path, 1, 2)
            /\ (cmd = "backup" /\ pc \in {"committed", "tagged", "done"}) =>
                  \A g \in repo.head.tree : SubSeq(g.path, 1, 2) # SubSeq(f.path, 1, 2)

\* A run committed whose clone held files of a workspace outside its scope.
C26_Witness ==
    /\ cmd = "backup" /\ pc = "committed"
    /\ \E i \in 1..Len(cfg.Envs) : OutOfScopeWorkspaceFiles(cfg.Envs[i]) # {}

\* The files of a tree outside the directories of the environments of the
\* resolved scope.
OutOfScopeFiles(tree) ==
    {f \in tree :
        \A i \in 1..Len(cfg.Envs) : f.path[1] # cfg.Envs[i].Name \o <<"_">> \o cfg.Envs[i].ID}

\* C27: a run changes nothing outside the directories of the environments
\* of its resolved scope: the files of every other top-level directory are
\* in the synchronized tree and in the commit what they were in the clone.
C27_OutOfScopeEnvironmentsUnchanged ==
    /\ SyncSucceeded => OutOfScopeFiles(repo.tree) = OutOfScopeFiles(repo.base.tree)
    /\ (cmd = "backup" /\ pc \in {"committed", "tagged", "done"}) =>
          OutOfScopeFiles(repo.head.tree) = OutOfScopeFiles(repo.base.tree)

\* A run committed a change while its clone held a directory that is the
\* directory of no environment of the inventory.
C27_Witness ==
    /\ cmd = "backup" /\ pc = "committed"
    /\ repo.head.tree # repo.base.tree
    /\ \E f \in OutOfScopeFiles(repo.base.tree) :
          \A i \in 1..Len(up.envs) : f.path[1] # up.envs[i].Name \o <<"_">> \o up.envs[i].ID

\* C28: the commit of a successful run that follows successful runs only
\* holds at most one top-level directory whose name ends in _<envId> for
\* each environment of the scope, also when the environment was renamed
\* since the run before.
C28_OneDirectoryPerEnvironment ==
    (/\ cmd = "backup" /\ pc = "done" /\ runs \in pushed
     /\ repo.base.id \in pushed \cup {0}) =>
        \A i \in 1..Len(cfg.Envs) :
            Cardinality({f.path[1] : f \in {g \in repo.head.tree :
                            HasSuffix(g.path[1], <<"_">> \o cfg.Envs[i].ID)}}) <= 1

\* C30: a run that made a commit, and so one that made a tag or pushed,
\* has processed at least one pair: its resolved scope holds an environment
\* with a workspace.
C30_SnapshotHasScope ==
    (cmd = "backup" /\ pc \in {"committed", "tagged", "done"}) =>
        \E i \in 1..Len(cfg.Envs) : Len(cfg.Envs[i].Workspaces) > 0

\* C25: the commit of a successful run holds, for every pair (envId, wsId)
\* that its message names, every file that the run fetched for that
\* workspace, at its path below the directory of the environment and with
\* the content fetched; also when workspaces or applications share a name.
C25_MessageTreeConsistency ==
    (cmd = "backup" /\ pc \in {"committed", "tagged", "done"}) =>
        \A k \in 1..Len(WorkList(cfg.Envs)) :
            (/\ WorkList(cfg.Envs)[k].kind = "ws"
             /\ OccurrencesOf(repo.head.msg, StepKey(cfg.Envs, k)[1],
                              StepKey(cfg.Envs, k)[2]) > 0) =>
                \A w \in Range(StepWrites(up, cfg.Envs, WorkList(cfg.Envs)[k])) :
                    w \in repo.head.tree

------------------------------------------------------------------------------
(* Claims about the catalog, the restore and the inventory *)

\* C24: the list and restore commands make no inventory call, so none of
\* them ends with the failure of one: whether they succeed depends on the
\* remote repository and their own arguments only.
C24_CatalogIndependentOfInventory ==
    cmd \in {"list", "restore"} =>
        ~(pc = "failed" /\ err \in {"Environments", "Workspaces", "Identities"})

\* The snapshot was made by a run whose scope held the pair.
SnapshotHoldsPair(commit, envID, wsID) ==
    \E i \in 1..Len(commit.scope) :
        /\ commit.scope[i].ID = envID
        /\ \E j \in 1..Len(commit.scope[i].Workspaces) :
              commit.scope[i].Workspaces[j].ID = wsID

\* The resolved scopes of two configuration files: p with x, and q alone.
RestoreScopes ==
    {ResolveScope(<<Selector(E1, W1, T1)>>, Tenant0),
     ResolveScope(<<Selector(E12, W1, Star)>>, Tenant0)}

\* C29: a restore with --env-id E --ws-id W of a tag whose snapshot holds
\* the pair succeeds, and what the filtered copy takes out of the tree of
\* the snapshot, and whether it finds anything, is the same under every
\* resolved scope.
C29_RestoreIndependentOfScope ==
    \A t \in remote.tags :
        ( /\ cmd = "restore"
          /\ pc \in {"done", "failed"}
          /\ err \notin {"Environments", "Workspaces", "Identities"}
          /\ opts.tag = t.name
          /\ opts.envID # <<>>
          /\ opts.wsID # <<>>
          /\ SnapshotHoldsPair(t.commit, opts.envID, opts.wsID) )
        => /\ pc = "done"
           /\ \A c \in RestoreScopes :
                 RestoreFiltered(t.commit.tree, c, opts, {}) =
                 RestoreFiltered(t.commit.tree, cfg.Envs, opts, {})

====
